---- MODULE Spec2Model ----
(***************************************************************************)
(* Two note clients over one note service.                                 *)
(*                                                                         *)
(*   rx : the stream-based NoteDataClient   (src/unnamed/part_000)         *)
(*   sg : the signal-based NoteDataClient   (src/demo/.../signals.page.ts) *)
(*   store, nextId : the note table behind noteRouter (src/unnamed/part_001)*)
(*                                                                         *)
(* A behaviour runs ONE client instance (impl) against the service.  Every *)
(* action is one JavaScript task: a user call, a timer callback, the       *)
(* service handling a request, or a response reaching the client.  The     *)
(* change detection that follows each task (it flushes the resource's load *)
(* effect and re-reads the signals the template shows) is part of the      *)
(* action.                                                                 *)
(***************************************************************************)
EXTENDS Integers, Sequences, FiniteSets, TLC

\* ------------------------------------------------------------------ bounds
MaxCalls == 3   \* the user makes at most MaxCalls calls of the client's methods
MaxNotes == 2   \* the lists given to the filters hold at most MaxNotes notes
MaxTerm == 3    \* the filter texts have at most MaxTerm characters

Usernames == {"", "ann"}              \* '' is the name of a route without ?name=

\* A string is a sequence of one-character strings.
Chars == {"a", "A", "1", " "}         \* the characters of filter texts
NoteTexts == {<<"A">>}                \* what the page adds
Days == {2, 11}                       \* created_at: days of one month

\* err.message of a failed call: one text per kind of call
ErrMessage(op) ==
    CASE op = "list" -> "list failed"
      [] op = "create" -> "create failed"
      [] op = "remove" -> "remove failed"

NULL == "<null>"                       \* the null of `string | null`
FetchFailed == "Fetch of notes failed"

VARIABLES
    impl,     \* which client this behaviour runs: "rx" or "sg"
    calls,    \* how many calls the user has made
    store,    \* the note table: sequence of rows in insertion order
    nextId,   \* note_id_seq: the id the next insert gets
    net,      \* requests sent and not yet handed back to the client
    timers,   \* the pending setTimeout handles
    rx,       \* the stream-based client's fields
    sg,       \* the signal-based client's fields
    filt,     \* the filter pipelines of the two clients, fed the same inputs
    pair,     \* the two clients run side by side, each against a service of its own
    page      \* a page component with its client

\* what the steps of the clients and of the service leave alone
beside == <<filt, pair, page>>

vars == <<impl, calls, store, nextId, net, timers, rx, sg, filt, pair, page>>

\* ------------------------------------------------------------------ helpers
Range(s) == {s[i] : i \in 1..Len(s)}

Ids(s) == {s[i].id : i \in 1..Len(s)}

Min(S) == CHOOSE m \in S : \A k \in S : m <= k

\* setTimeout returns a positive handle that no pending timer has
FreshTimer(pending) == Min({i \in 1..(Cardinality(pending) + 1) : i \notin pending})

\* ------------------------------------------------------------------ the note service
\* created_at defaults to current_timestamp; a behaviour of the clients runs
\* within one day
CurrentTimestamp == Min(Days)

\* create that gives every row the id 1 instead of the sequence's value
Create_NoSequence(st, id, note, person) ==
    Append(st, [id |-> 1, note |-> note, person |-> person, createdAt |-> CurrentTimestamp])

\* create: insert(...).values({note, person}).returning()
Create(st, id, note, person) ==
    Append(st, [id |-> id, note |-> note, person |-> person, createdAt |-> CurrentTimestamp])

\* list without its where clause
List_NoWhere(st, person) == st

\* list: select().from(notes).where(eq(notes.person, person))
List(st, person) == SelectSeq(st, LAMBDA n : n.person = person)

\* remove: delete(notes).where(eq(notes.id, id)).returning()
Remove(st, id) == SelectSeq(st, LAMBDA n : n.id # id)

Removed(st, id) == SelectSeq(st, LAMBDA n : n.id = id)

\* ------------------------------------------------------------------ requests
\* A request in the network.  awaited: the subscriber that made the call still
\* listens for its answer.  phase: "sent", then "ok" once the service handled it.
\* dup tells equal requests apart.  latest, afterOp and afterId are history that
\* no handler reads: latest marks the call of its kind made last, afterOp/afterId
\* the mutation whose success made the client issue a list request.
Request(op, person, note, nid, afterOp, afterId) ==
    [op |-> op, person |-> person, note |-> note, nid |-> nid,
     phase |-> "sent", result |-> <<>>, awaited |-> TRUE, latest |-> TRUE,
     afterOp |-> afterOp, afterId |-> afterId, dup |-> 1]

\* put a request into the network
Put(netv, r) ==
    LET k == Min({i \in 1..(Cardinality(netv) + 1) : [r EXCEPT !.dup = i] \notin netv})
    IN  netv \cup {[r EXCEPT !.dup = k]}

\* the client makes a call: the request leaves, and is now the latest of its kind
Issue(netv, r) ==
    LET older == {q \in netv : q.op = r.op /\ q.latest}
        aged == {[q EXCEPT !.latest = FALSE] : q \in older}
    IN  Put((netv \ older) \cup aged, r)

\* no unsubscribing: the pending call stays awaited (mergeMap instead of switchMap)
Unsubscribe_Keep(netv, op) == netv

\* the subscription to the pending call of kind op ends (switchMap, takeUntil,
\* abort): an answer on its way back is dropped, a request on its way to the
\* service may still arrive there
Unsubscribe(netv, op) ==
    LET old == {r \in netv : r.op = op /\ r.awaited}
        rest == netv \ old
        left(q) == [q EXCEPT !.awaited = FALSE, !.dup = 1]
    IN  IF old = {} THEN netv
        ELSE LET r == CHOOSE q \in old : TRUE
             IN  IF r.phase = "sent" THEN Put(rest, left(r)) ELSE rest

\* a subscriber is "open" until its stream errors ("errored") or completes
\* ("completed"); takeUntil(_destroy$) completes the open ones
Completed(sub) == IF sub = "open" THEN "completed" ELSE sub

\* the world a handler runs in: its client's fields c, the network, the timers
World(c) == [c |-> c, net |-> net, timers |-> timers]

\* ================================================================== stream-based client
RxInit ==
    [username |-> "", notes |-> <<>>, loading |-> FALSE, error |-> NULL,
     showRefresh |-> FALSE, refreshTimer |-> 0,
     loadSub |-> "open", addSub |-> "open", removeSub |-> "open",
     destroyed |-> FALSE]

\* setLoading(isLoading) that leaves error$ alone
RxSetLoading_KeepError(w, isLoading) == [w EXCEPT !.c.loading = isLoading]

\* setLoading(isLoading)
RxSetLoading(w, isLoading) ==
    [w EXCEPT !.c.loading = isLoading,
              !.c.error = IF isLoading THEN NULL ELSE @]

\* resetRefreshTimer() without its clearTimeout
RxResetRefreshTimer_NoClear(w) ==
    [w EXCEPT !.timers = @ \cup {FreshTimer(@)},
              !.c.showRefresh = FALSE,
              !.c.refreshTimer = FreshTimer(w.timers)]

\* resetRefreshTimer(): clearTimeout, showRefresh$ false, setTimeout
RxResetRefreshTimer(w) ==
    LET cleared == w.timers \ {w.c.refreshTimer}
        t == FreshTimer(cleared)
    IN  [w EXCEPT !.timers = cleared \cup {t},
                  !.c.showRefresh = FALSE,
                  !.c.refreshTimer = t]

\* _loadNotes$.next() reaching a load effect that outlives its errors
RxLoadNotesNext_Resubscribed(w, afterOp, afterId) ==
    IF w.c.destroyed THEN w
    ELSE LET w1 == RxSetLoading(w, TRUE)
         IN  [w1 EXCEPT !.net = Issue(Unsubscribe(@, "list"),
                                      Request("list", w1.c.username, <<>>, 0, afterOp, afterId))]

\* _loadNotes$.next(): tap(setLoading(true)), withLatestFrom(username$),
\* switchMap(list.query) -- nothing happens once the subscriber is closed
RxLoadNotesNext(w, afterOp, afterId) ==
    IF w.c.loadSub # "open" THEN w
    ELSE LET w1 == RxSetLoading(w, TRUE)
         IN  [w1 EXCEPT !.net = Issue(Unsubscribe(@, "list"),
                                      Request("list", w1.c.username, <<>>, 0, afterOp, afterId))]

\* _addNote$.next(note)
RxAddNoteNext(w, note) ==
    IF w.c.addSub # "open" THEN w
    ELSE LET w1 == RxSetLoading(w, TRUE)
         IN  [w1 EXCEPT !.net = Issue(Unsubscribe(@, "create"),
                                      Request("create", w1.c.username, note, 0, "none", 0))]

\* _removeNote$.next(id)
RxRemoveNoteNext(w, nid) ==
    IF w.c.removeSub # "open" THEN w
    ELSE LET w1 == RxSetLoading(w, TRUE)
         IN  [w1 EXCEPT !.net = Issue(Unsubscribe(@, "remove"),
                                      Request("remove", "", <<>>, nid, "none", 0))]

\* load effect, next: notes$.next(notes); setLoading(false); resetRefreshTimer()
RxLoadNext(w, notes) ==
    RxResetRefreshTimer(RxSetLoading([w EXCEPT !.c.notes = notes], FALSE))

\* load effect, error: setLoading(false); error$.next(err.message); the subscriber is closed
RxLoadError(w, msg) ==
    [RxSetLoading(w, FALSE) EXCEPT !.c.error = msg, !.c.loadSub = "errored"]

\* add note effect, next, without _loadNotes$.next()
RxAddNext_NoReload(w, created) == RxSetLoading(w, FALSE)

\* add note effect, next: _loadNotes$.next(); setLoading(false)
RxAddNext(w, created) ==
    RxSetLoading(RxLoadNotesNext(w, "create", created), FALSE)

\* add note effect, error
RxAddError(w, msg) ==
    [RxSetLoading(w, FALSE) EXCEPT !.c.error = msg, !.c.addSub = "errored"]

\* remove note effect, next: _loadNotes$.next(); setLoading(false)
RxRemoveNext(w, removed) ==
    RxSetLoading(RxLoadNotesNext(w, "remove", removed), FALSE)

\* remove note effect, error, without error$.next(err.message)
RxRemoveError_NoMessage(w, msg) ==
    [RxSetLoading(w, FALSE) EXCEPT !.c.removeSub = "errored"]

\* remove note effect, error
RxRemoveError(w, msg) ==
    [RxSetLoading(w, FALSE) EXCEPT !.c.error = msg, !.c.removeSub = "errored"]

\* username$.next(username): the BehaviorSubject keeps the value; the constructor's
\* subscriber (until _destroy$) answers with _loadNotes$.next()
RxUsernameNext(w, username) ==
    LET w1 == [w EXCEPT !.c.username = username]
    IN  IF w1.c.destroyed THEN w1 ELSE RxLoadNotesNext(w1, "none", 0)

\* a list query unsubscribed in the turn that subscribed it is never sent
RxAbortUnsent(w) ==
    [w EXCEPT !.net = {r \in @ : ~(r.op = "list" /\ r.awaited)}]

\* setUsername(username): username$.next(username); this.loadNotes()
RxSetUsernameCall(w, username) ==
    LET w1 == RxUsernameNext(w, username)
    IN  IF w1.c.loadSub = "open" THEN RxLoadNotesNext(RxAbortUnsent(w1), "none", 0) ELSE w1

\* ngOnDestroy() without _destroy$.next(): the subscriptions stay
RxNgOnDestroyCall_NoDestroyNext(w) ==
    [w EXCEPT !.timers = @ \ {w.c.refreshTimer}, !.c.destroyed = TRUE]

\* ngOnDestroy() without its clearTimeout
RxNgOnDestroyCall_NoClear(w) ==
    [w EXCEPT !.net = Unsubscribe(Unsubscribe(Unsubscribe(@, "list"), "create"), "remove"),
              !.c.loadSub = Completed(@), !.c.addSub = Completed(@),
              !.c.removeSub = Completed(@),
              !.c.destroyed = TRUE]

\* ngOnDestroy(): clearTimeout(_refreshTimer); _destroy$.next(); _destroy$.complete()
RxNgOnDestroyCall(w) ==
    [w EXCEPT !.timers = @ \ {w.c.refreshTimer},
              !.net = Unsubscribe(Unsubscribe(Unsubscribe(@, "list"), "create"), "remove"),
              !.c.loadSub = Completed(@), !.c.addSub = Completed(@),
              !.c.removeSub = Completed(@),
              !.c.destroyed = TRUE]

\* the constructor: username$ (a BehaviorSubject) emits '' to the subscriber of
\* line 140 at once, which starts the first list query
RxConstructed == RxLoadNotesNext([c |-> RxInit, net |-> {}, timers |-> {}], "none", 0)

\* ================================================================== signal-based client
SgInit ==
    [username |-> "", status |-> "Idle", value |-> <<>>,
     loadingCreate |-> FALSE, errorCreate |-> NULL,
     loadingDelete |-> FALSE, errorDelete |-> NULL,
     timerId |-> 0, showRefresh |-> FALSE, linkedSource |-> "Idle",
     addSub |-> "open", removeSub |-> "open",
     destroyed |-> FALSE]

\* a JavaScript string or null used as a condition
Truthy(s) == s # NULL /\ s # ""

\* notes = computed(() => noteResource.value() ?? [])
SgNotes(c) == c.value

\* loading = computed(() => noteResource.isLoading() || loadingDelete() || loadingCreate())
SgLoading(c) == c.status \in {"Loading", "Reloading"} \/ c.loadingDelete \/ c.loadingCreate

\* error = computed(() => (noteResource.error() ? 'Fetch of notes failed' : null)
\*                        || errorCreate() || errorDelete())
SgError(c) ==
    IF c.status = "Error" THEN FetchFailed
    ELSE IF Truthy(c.errorCreate) THEN c.errorCreate
    ELSE c.errorDelete

\* showRefresh's computation: clears the timer it holds, arms one when Resolved, false
SgShowRefreshComputation(w) ==
    LET cleared == IF w.c.timerId > 0 THEN w.timers \ {w.c.timerId} ELSE w.timers
        t == FreshTimer(cleared)
        armed == w.c.status = "Resolved"
    IN  [w EXCEPT !.timers = IF armed THEN cleared \cup {t} ELSE cleared,
                  !.c.timerId = IF armed THEN t ELSE @,
                  !.c.showRefresh = FALSE,
                  !.c.linkedSource = w.c.status]

\* a linked signal recomputes when it is read after its source changed
SgReadShowRefresh(w) ==
    IF w.c.status # w.c.linkedSource THEN SgShowRefreshComputation(w) ELSE w

\* the change detection after a task: the template of the live component reads showRefresh
SgTick(w) == IF w.c.destroyed THEN w ELSE SgReadShowRefresh(w)

\* the resource's load: abort the load in progress, Loading (value dropped) for a
\* new request or Reloading (value kept) for a reload, then the loader's list query
SgLoad(w, reloading, afterOp, afterId) ==
        [w EXCEPT !.net = Issue(Unsubscribe(@, "list"),
                                Request("list", w.c.username, <<>>, 0, afterOp, afterId)),
                  !.c.status = IF reloading THEN "Reloading" ELSE "Loading",
                  !.c.value = IF reloading THEN @ ELSE <<>>]

\* loadNotes() that never reloads
SgLoadNotesCall_NoReload(w, afterOp, afterId) == w

\* loadNotes(): noteResource.reload() does nothing for an Idle or Loading resource
SgLoadNotesCall(w, afterOp, afterId) ==
    IF w.c.status \in {"Idle", "Loading"} THEN w ELSE SgLoad(w, TRUE, afterOp, afterId)

\* setUsername(username): username.set(username); an equal value notifies nobody
SgSetUsernameCall(w, username) ==
    IF username = w.c.username THEN w
    ELSE LET w1 == [w EXCEPT !.c.username = username]
         IN  IF w1.c.destroyed THEN w1 ELSE SgLoad(w1, FALSE, "none", 0)

\* addNote$.next(note) whose create call does not carry the username
SgAddNoteNext_NoPerson(w, note) ==
    IF w.c.addSub # "open" THEN w
    ELSE [w EXCEPT !.net = Issue(Unsubscribe(@, "create"),
                                 Request("create", "", note, 0, "none", 0)),
                   !.c.loadingCreate = TRUE, !.c.errorCreate = NULL]

\* addNote$.next(note): tap(loadingCreate true, errorCreate null), switchMap(create.mutate)
SgAddNoteNext(w, note) ==
    IF w.c.addSub # "open" THEN w
    ELSE [w EXCEPT !.net = Issue(Unsubscribe(@, "create"),
                                 Request("create", w.c.username, note, 0, "none", 0)),
                   !.c.loadingCreate = TRUE, !.c.errorCreate = NULL]

\* removeNote$.next(id)
SgRemoveNoteNext(w, nid) ==
    IF w.c.removeSub # "open" THEN w
    ELSE [w EXCEPT !.net = Issue(Unsubscribe(@, "remove"),
                                 Request("remove", "", <<>>, nid, "none", 0)),
                   !.c.loadingDelete = TRUE, !.c.errorDelete = NULL]

\* addNote$ subscriber, next: loadNotes(); loadingCreate.set(false)
SgAddNext(w, created) ==
    [SgLoadNotesCall(w, "create", created) EXCEPT !.c.loadingCreate = FALSE]

\* addNote$ subscriber, error, writing the message to errorDelete
SgAddError_WrongSignal(w, msg) ==
    [w EXCEPT !.c.errorDelete = msg, !.c.addSub = "errored"]

\* addNote$ subscriber, error: errorCreate.set(err.message); the subscriber is closed
SgAddError(w, msg) ==
    [w EXCEPT !.c.errorCreate = msg, !.c.addSub = "errored"]

\* removeNote$ subscriber, next: loadNotes(); loadingDelete.set(false)
SgRemoveNext(w, removed) ==
    [SgLoadNotesCall(w, "remove", removed) EXCEPT !.c.loadingDelete = FALSE]

\* removeNote$ subscriber, error
SgRemoveError(w, msg) ==
    [w EXCEPT !.c.errorDelete = msg, !.c.removeSub = "errored"]

\* the loader's query answered: Resolved with the value
SgResolved(w, notes) ==
    [w EXCEPT !.c.status = "Resolved", !.c.value = notes]

\* the loader's query failed: Error, no value
SgRejected(w) ==
    [w EXCEPT !.c.status = "Error", !.c.value = <<>>]

\* ngOnDestroy(): _destroy$.next(); _destroy$.complete().  The resource, created in
\* the same injector, is destroyed with it: load aborted, Idle, no value.  The
\* timer is not cleared.
SgNgOnDestroyCall(w) ==
    [w EXCEPT !.net = Unsubscribe(Unsubscribe(Unsubscribe(@, "list"), "create"), "remove"),
              !.c.addSub = Completed(@), !.c.removeSub = Completed(@),
              !.c.status = "Idle", !.c.value = <<>>,
              !.c.destroyed = TRUE]

\* the timer's callback: showRefresh.set(true); timerId = 0.  Setting a linked
\* signal first brings it up to date with its source.
SgTimerCallback(w) ==
    [SgReadShowRefresh(w) EXCEPT !.c.showRefresh = TRUE, !.c.timerId = 0]

\* the constructor and the first change detection: the resource loads username ''
SgConstructed == SgTick(SgLoad([c |-> SgInit, net |-> {}, timers |-> {}], FALSE, "none", 0))

\* ================================================================== the filters
\* String.prototype.toLowerCase
LowerChar(ch) == IF ch = "A" THEN "a" ELSE ch

ToLowerCase(str) == [i \in 1..Len(str) |-> LowerChar(str[i])]

\* String.prototype.includes
Includes(str, part) ==
    \E i \in 0..(Len(str) - Len(part)) : SubSeq(str, i + 1, i + Len(part)) = part

\* String.prototype.split(' '): the pieces between the spaces, empty ones included
RECURSIVE SplitFrom(_, _, _, _)
SplitFrom(str, i, piece, pieces) ==
    IF i > Len(str) THEN Append(pieces, piece)
    ELSE IF str[i] = " " THEN SplitFrom(str, i + 1, <<>>, Append(pieces, piece))
    ELSE SplitFrom(str, i + 1, Append(piece, str[i]), pieces)

Split(str) == SplitFrom(str, 1, <<>>, <<>>)

\* term.toLowerCase().split(' ').filter(t => t)
SearchTerms(term) == SelectSeq(Split(ToLowerCase(term)), LAMBDA t : t # <<>>)

DigitChars == <<"0", "1", "2", "3", "4", "5", "6", "7", "8", "9">>

RECURSIVE Digits(_)
Digits(n) ==
    IF n < 10 THEN <<DigitChars[n + 1]>>
    ELSE Append(Digits(n \div 10), DigitChars[(n % 10) + 1])

\* new Date(createdAt).toLocaleDateString(): of the date string, the day's digits
\* are what differs between the notes of a month
ToLocaleDateString(createdAt) == Digits(createdAt)

\* filterNotes(notes, term) matching when some search term occurs
RxFilterNotes_Some(notes, term) ==
    IF term = <<>> THEN notes
    ELSE LET searchTerms == SearchTerms(term)
             keep(note) ==
                 LET noteContent == ToLowerCase(note.note)
                     noteDate == ToLowerCase(ToLocaleDateString(note.createdAt))
                 IN  \E k \in 1..Len(searchTerms) :
                        \/ Includes(noteContent, searchTerms[k])
                        \/ Includes(noteDate, searchTerms[k])
         IN  SelectSeq(notes, keep)

\* stream-based filterNotes(notes, term)
RxFilterNotes(notes, term) ==
    IF term = <<>> THEN notes
    ELSE LET searchTerms == SearchTerms(term)
             keep(note) ==
                 LET noteContent == ToLowerCase(note.note)
                     noteDate == ToLowerCase(ToLocaleDateString(note.createdAt))
                 IN  \A k \in 1..Len(searchTerms) :
                        \/ Includes(noteContent, searchTerms[k])
                        \/ Includes(noteDate, searchTerms[k])
         IN  SelectSeq(notes, keep)

\* filteredNotes with the note text and the date string joined without the ' '
SgFilteredNotes_NoSeparator(notes, filterText) ==
    LET searchTerms == SearchTerms(filterText)
        keep(item) ==
            LET lowerItem == ToLowerCase(item.note)
                               \o ToLowerCase(ToLocaleDateString(item.createdAt))
            IN  \A k \in 1..Len(searchTerms) : Includes(lowerItem, searchTerms[k])
    IN  IF Len(searchTerms) = 0 THEN notes ELSE SelectSeq(notes, keep)

\* signal-based filteredNotes, as a function of notes() and filterText()
SgFilteredNotes(notes, filterText) ==
    LET searchTerms == SearchTerms(filterText)
        keep(item) ==
            LET lowerItem == ToLowerCase(item.note) \o <<" ">>
                               \o ToLowerCase(ToLocaleDateString(item.createdAt))
            IN  \A k \in 1..Len(searchTerms) : Includes(lowerItem, searchTerms[k])
    IN  IF Len(searchTerms) = 0 THEN notes ELSE SelectSeq(notes, keep)

\* filteredNotes$ = combineLatest([notes$, _filterTerm$]).pipe(map(filterNotes)) and
\* filteredNotes = computed(...): what the two clients show for notes and a filter
\* text; typed is the text in the page's filter box
Filters(notes, term, typed) ==
    [notes |-> notes, term |-> term, typed |-> typed,
     rxFiltered |-> RxFilterNotes(notes, term),
     sgFiltered |-> SgFilteredNotes(notes, term)]

\* ================================================================== the two clients side by side
\* a client with its filter text, and the service it talks to
Side(w, st, id, term) == [w |-> w, store |-> st, nextId |-> id, term |-> term]

\* both clients constructed, over empty tables
PairConstructed ==
    [rx |-> Side(RxConstructed, <<>>, 1, <<>>),
     sg |-> Side(SgConstructed, <<>>, 1, <<>>),
     calls |-> 0]

\* ================================================================== the page components
\* RxjsComponent and DemoSignalsComponent, each over its own client.  The texts
\* of the page's inputs are sequences of characters; the username and the note
\* text the page hands to its client are such sequences, '' being <<>>.
NoText == <<NULL>>                     \* the null of a text

\* what the user types into the name box and into the note box
NameInputs == {<<>>, <<" ">>, <<"a">>, <<" ", "a", " ">>, <<"a", " ", "a">>}
NoteInputs == {<<>>, <<" ">>, <<"A">>}

\* the name query parameter of the URL the page is opened with: none, or a text
PageParams == {NoText, <<>>, <<"a">>, <<" ", "a", " ">>}

RECURSIVE TrimStart(_)
TrimStart(str) ==
    IF str # <<>> /\ Head(str) = " " THEN TrimStart(Tail(str)) ELSE str

RECURSIVE TrimEnd(_)
TrimEnd(str) ==
    IF str # <<>> /\ str[Len(str)] = " " THEN TrimEnd(SubSeq(str, 1, Len(str) - 1)) ELSE str

\* String.prototype.trim
Trim(str) == TrimEnd(TrimStart(str))

\* name || null
OrNull(name) == IF name = <<>> THEN NoText ELSE name

\* params.get('name') ?? '' and this.name() ?? ''
OrEmpty(param) == IF param = NoText THEN <<>> ELSE param

\* the required validator of the note box: null and '' do not pass
Required(value) == value # NoText /\ Len(value) > 0

\* form.valid: the form's one control is the note box
FormValid(p) == Required(p.control)

\* the client of a page, constructed with username ''
PageClientConstructed(kind) ==
    IF kind = "rx"
    THEN RxLoadNotesNext([c |-> [RxInit EXCEPT !.username = <<>>], net |-> {}, timers |-> {}],
                         "none", 0)
    ELSE SgTick(SgLoad([c |-> [SgInit EXCEPT !.username = <<>>], net |-> {}, timers |-> {}],
                       FALSE, "none", 0))

\* noteDataClient.addNote(note); added keeps the texts handed over
PageClientAddNote(p, note) ==
    [p EXCEPT !.w = IF p.kind = "rx" THEN RxAddNoteNext(@, note)
                                     ELSE SgTick(SgAddNoteNext(@, note)),
              !.added = Append(@, note)]

\* noteDataClient.setUsername(name); named keeps the names handed over
PageClientSetUsername(p, name) ==
    [p EXCEPT !.w = IF p.kind = "rx" THEN RxSetUsernameCall(@, name)
                                     ELSE SgTick(SgSetUsernameCall(@, name)),
              !.named = Append(@, name)]

\* form.form.markAllAsTouched()
MarkAllAsTouched(p) == [p EXCEPT !.touched = TRUE]

\* form.form.reset(): the control's value becomes null and the control untouched;
\* the control hands its new value to ngModelChange, and the two-way binding
\* [(ngModel)]="newNote" assigns it to newNote
FormReset(p) == [p EXCEPT !.control = NoText, !.touched = FALSE, !.newNote = NoText]

\* addNote(form)
PageAddNoteCall(p) ==
    IF ~FormValid(p) THEN MarkAllAsTouched(p)
    ELSE FormReset([PageClientAddNote(p, p.newNote) EXCEPT !.newNote = <<>>])

\* router.navigate([], {queryParams: {name: target}, queryParamsHandling: 'merge'}):
\* the navigation in progress is superseded; a navigation to the current URL is
\* skipped, any other one is in progress until it ends
Navigate(p, target) ==
    [p EXCEPT !.nav = IF target = p.param THEN {} ELSE {target}]

\* updateNameParam() that does not trim
PageUpdateNameParamCall_NoTrim(p) ==
    LET name == p.nameControl
    IN  PageClientSetUsername(Navigate(p, OrNull(name)), name)

\* updateNameParam()
PageUpdateNameParamCall(p) ==
    LET name == Trim(p.nameControl)
    IN  PageClientSetUsername(Navigate(p, OrNull(name)), name)

\* the query parameter notification: the subscriber of route.queryParamMap, and
\* the effect on the name input the router binds
PageOnNameParamChange(p) ==
    LET name == OrEmpty(p.param)
    IN  PageClientSetUsername([p EXCEPT !.nameControl = name], name)

\* the page constructed over the URL's name parameter: the first notification has run
PageConstructed(kind, param) ==
    PageOnNameParamChange(
        [kind |-> kind, w |-> PageClientConstructed(kind),
         newNote |-> <<>>, control |-> <<>>, touched |-> FALSE,
         nameControl |-> <<>>, param |-> param, nav |-> {},
         added |-> <<>>, named |-> <<>>, calls |-> 0])

\* the page the other state machines leave alone
PageParked == PageConstructed("rx", NoText)

\* ================================================================== the state machine
Init ==
    /\ impl \in {"rx", "sg"}
    /\ calls = 0
    /\ store = <<>>
    /\ nextId = 1
    /\ timers = {}
    /\ rx = IF impl = "rx" THEN RxConstructed.c ELSE RxInit
    /\ sg = IF impl = "sg" THEN SgConstructed.c ELSE SgInit
    /\ net = IF impl = "rx" THEN RxConstructed.net ELSE SgConstructed.net
    /\ filt = Filters(<<>>, <<>>, <<>>)
    /\ pair = PairConstructed
    /\ page = PageParked

RxStep(w) ==
    /\ rx' = w.c
    /\ net' = w.net
    /\ timers' = w.timers
    /\ UNCHANGED <<impl, store, nextId, sg, beside>>

\* a call of one of the client's methods by the page
Call ==
    /\ calls < MaxCalls
    /\ calls' = calls + 1

SgStep(w) ==
    /\ sg' = w.c
    /\ net' = w.net
    /\ timers' = w.timers
    /\ UNCHANGED <<impl, store, nextId, rx, beside>>

\* ------------------------------------------------------------------ the service's steps
\* the answer to request r: it travels back when somebody awaits it, and is
\* dropped by the transport otherwise
Answer(netv, r, result) ==
    IF r.awaited
    THEN Put(netv \ {r}, [r EXCEPT !.phase = "ok", !.result = result, !.dup = 1])
    ELSE netv \ {r}

\* noteRouter handles request r over the table st with sequence value id: the
\* table, the sequence and the network afterwards
Handled(st, id, netv, r) ==
    CASE r.op = "list" ->
           [store |-> st, nextId |-> id, net |-> Answer(netv, r, List(st, r.person))]
      [] r.op = "create" ->
           LET st1 == Create(st, id, r.note, r.person)
           IN  [store |-> st1, nextId |-> id + 1, net |-> Answer(netv, r, <<st1[Len(st1)]>>)]
      [] r.op = "remove" ->
           [store |-> Remove(st, r.nid), nextId |-> id, net |-> Answer(netv, r, Removed(st, r.nid))]

\* the service handles a request
Serve(r) ==
    /\ r \in net
    /\ r.phase = "sent"
    /\ LET h == Handled(store, nextId, net, r)
       IN  /\ store' = h.store
           /\ nextId' = h.nextId
           /\ net' = h.net
    /\ UNCHANGED <<impl, calls, timers, rx, sg, beside>>

\* a request nobody listens for any more leaves the network, handled or not
Lost(r) ==
    /\ r \in net
    /\ ~r.awaited
    /\ net' = net \ {r}
    /\ UNCHANGED <<impl, calls, store, nextId, timers, rx, sg, beside>>

\* ------------------------------------------------------------------ stream-based client's steps
RxSetUsername(u) ==
    /\ impl = "rx"
    /\ Call
    /\ RxStep(RxSetUsernameCall(World(rx), u))

\* loadNotes(): _loadNotes$.next()
RxLoadNotes ==
    /\ impl = "rx"
    /\ Call
    /\ RxStep(RxLoadNotesNext(World(rx), "none", 0))

\* addNote(note): _addNote$.next(note)
RxAddNote(note) ==
    /\ impl = "rx"
    /\ Call
    /\ RxStep(RxAddNoteNext(World(rx), note))

\* deleteNote(id): _removeNote$.next(id), for a note the page shows
RxDeleteNote(nid) ==
    /\ impl = "rx"
    /\ Call
    /\ nid \in Ids(rx.notes)
    /\ RxStep(RxRemoveNoteNext(World(rx), nid))

RxNgOnDestroy ==
    /\ impl = "rx"
    /\ UNCHANGED calls
    /\ ~rx.destroyed
    /\ RxStep(RxNgOnDestroyCall(World(rx)))

\* a timer callback that leaves showRefresh$ alone
RxTimerCallback_NoShow(w) == w

\* the callback of setTimeout in resetRefreshTimer: showRefresh$.next(true)
RxTimerCallback(w) == [w EXCEPT !.c.showRefresh = TRUE]

RxTimerFire(t) ==
    /\ impl = "rx"
    /\ UNCHANGED calls
    /\ t \in timers
    /\ RxStep(RxTimerCallback([World(rx) EXCEPT !.timers = @ \ {t}]))

\* the next handler of the subscriber that awaits the answer r
RxSubscriberNext(w0, r) ==
    LET w == [w0 EXCEPT !.net = @ \ {r}]
    IN  CASE r.op = "list" -> RxLoadNext(w, r.result)
          [] r.op = "create" -> RxAddNext(w, r.result[1].id)
          [] r.op = "remove" -> RxRemoveNext(w, r.nid)

\* the answer of the service reaches the subscriber that awaits it
RxDeliverOk(r) ==
    /\ impl = "rx"
    /\ UNCHANGED calls
    /\ r \in net
    /\ r.phase = "ok"
    /\ r.awaited
    /\ RxStep(RxSubscriberNext(World(rx), r))

\* the call fails, before or after the service handled it, and the failure
\* reaches the subscriber that awaits the answer
RxDeliverErr(r) ==
    /\ impl = "rx"
    /\ UNCHANGED calls
    /\ r \in net
    /\ r.awaited
    /\ LET w == [World(rx) EXCEPT !.net = @ \ {r}]
       IN  RxStep(CASE r.op = "list" -> RxLoadError(w, ErrMessage(r.op))
                    [] r.op = "create" -> RxAddError(w, ErrMessage(r.op))
                    [] r.op = "remove" -> RxRemoveError(w, ErrMessage(r.op)))

\* ------------------------------------------------------------------ signal-based client's steps
SgSetUsername(u) ==
    /\ impl = "sg"
    /\ Call
    /\ SgStep(SgTick(SgSetUsernameCall(World(sg), u)))

SgLoadNotes ==
    /\ impl = "sg"
    /\ Call
    /\ SgStep(SgTick(SgLoadNotesCall(World(sg), "none", 0)))

\* addNote(note): addNote$.next(note)
SgAddNote(note) ==
    /\ impl = "sg"
    /\ Call
    /\ SgStep(SgTick(SgAddNoteNext(World(sg), note)))

\* deleteNote(id): removeNote$.next(id), for a note the page shows
SgDeleteNote(nid) ==
    /\ impl = "sg"
    /\ Call
    /\ nid \in Ids(SgNotes(sg))
    /\ SgStep(SgTick(SgRemoveNoteNext(World(sg), nid)))

SgNgOnDestroy ==
    /\ impl = "sg"
    /\ UNCHANGED calls
    /\ ~sg.destroyed
    /\ SgStep(SgNgOnDestroyCall(World(sg)))

SgTimerFire(t) ==
    /\ impl = "sg"
    /\ UNCHANGED calls
    /\ t \in timers
    /\ SgStep(SgTick(SgTimerCallback([World(sg) EXCEPT !.timers = @ \ {t}])))

\* the resource's loader or the subscriber that awaits the answer r takes it
SgSubscriberNext(w0, r) ==
    LET w == [w0 EXCEPT !.net = @ \ {r}]
    IN  CASE r.op = "list" -> SgResolved(w, r.result)
          [] r.op = "create" -> SgAddNext(w, r.result[1].id)
          [] r.op = "remove" -> SgRemoveNext(w, r.nid)

SgDeliverOk(r) ==
    /\ impl = "sg"
    /\ UNCHANGED calls
    /\ r \in net
    /\ r.phase = "ok"
    /\ r.awaited
    /\ SgStep(SgTick(SgSubscriberNext(World(sg), r)))

SgDeliverErr(r) ==
    /\ impl = "sg"
    /\ UNCHANGED calls
    /\ r \in net
    /\ r.awaited
    /\ LET w == [World(sg) EXCEPT !.net = @ \ {r}]
       IN  SgStep(SgTick(CASE r.op = "list" -> SgRejected(w)
                           [] r.op = "create" -> SgAddError(w, ErrMessage(r.op))
                           [] r.op = "remove" -> SgRemoveError(w, ErrMessage(r.op))))

Next ==
    \/ \E r \in net : Serve(r)
    \/ \E r \in net : Lost(r)
    \/ \E u \in Usernames : RxSetUsername(u)
    \/ RxLoadNotes
    \/ \E note \in NoteTexts : RxAddNote(note)
    \/ \E nid \in Ids(rx.notes) : RxDeleteNote(nid)
    \/ RxNgOnDestroy
    \/ \E t \in timers : RxTimerFire(t)
    \/ \E r \in net : RxDeliverOk(r)
    \/ \E r \in net : RxDeliverErr(r)
    \/ \E u \in Usernames : SgSetUsername(u)
    \/ SgLoadNotes
    \/ \E note \in NoteTexts : SgAddNote(note)
    \/ \E nid \in Ids(SgNotes(sg)) : SgDeleteNote(nid)
    \/ SgNgOnDestroy
    \/ \E t \in timers : SgTimerFire(t)
    \/ \E r \in net : SgDeliverOk(r)
    \/ \E r \in net : SgDeliverErr(r)

Spec == Init /\ [][Next]_vars

\* a pending setTimeout callback is run by the event loop unless it is cleared
TimerFire == \E t \in timers : RxTimerFire(t) \/ SgTimerFire(t)

LiveSpec == Spec /\ WF_vars(TimerFire)

\* ================================================================== the filters' state machine
\* The filter pipelines read notes and the filter text and nothing else, and
\* nothing reads them: they are run on their own, both clients' side by side,
\* over lists of notes of any content.  MaxNotes and MaxTerm bound the inputs.
FilterTexts == UNION {[1..n -> Chars] : n \in 0..MaxTerm}

NoteContents == {<<"a">>, <<"1">>, <<"A", " ", "1">>}

\* the lists a list call can answer with: rows with ids of their own
NoteLists ==
    LET rows(f) == [i \in 1..Len(f) |->
                      [id |-> i, note |-> f[i][1], person |-> "", createdAt |-> f[i][2]]]
    IN  UNION {{rows(f) : f \in [1..n -> NoteContents \X Days]} : n \in 0..MaxNotes}

\* no client runs
Parked ==
    /\ impl = "none"
    /\ calls = 0
    /\ store = <<>>
    /\ nextId = 1
    /\ net = {}
    /\ timers = {}
    /\ rx = RxInit
    /\ sg = SgInit

\* the clients hold a list of notes and no filter text; the user has typed one
FilterInit ==
    /\ Parked
    /\ filt \in {Filters(notes, <<>>, typed) : notes \in NoteLists, typed \in FilterTexts}
    /\ pair = PairConstructed
    /\ page = PageParked

\* the filter box's input event: setFilterTerm(value), i.e. _filterTerm$.next(term)
\* past distinctUntilChanged, and filterText.set(term)
SetFilterTerm ==
    /\ filt.typed # filt.term
    /\ filt' = Filters(filt.notes, filt.typed, filt.typed)
    /\ UNCHANGED <<impl, calls, store, nextId, net, timers, rx, sg, pair, page>>

\* notes$.next(notes) and the resource's new value, for the list without row k
\* (the reload after a note was removed)
NotesNext(k) ==
    /\ k \in 1..Len(filt.notes)
    /\ filt' = Filters(SubSeq(filt.notes, 1, k - 1) \o SubSeq(filt.notes, k + 1, Len(filt.notes)),
                       filt.term, filt.typed)
    /\ UNCHANGED <<impl, calls, store, nextId, net, timers, rx, sg, pair, page>>

FilterNext ==
    \/ SetFilterTerm
    \/ \E k \in 1..MaxNotes : NotesNext(k)

FilterSpec == FilterInit /\ [][FilterNext]_vars

\* ================================================================== the side-by-side state machine
\* The page's calls go to both clients; a call is made when no request of either
\* client is on its way, and every request is answered with success.
PairTerms == {<<>>, <<"a">>, <<"1">>}

PairInit ==
    /\ Parked
    /\ filt = Filters(<<>>, <<>>, <<>>)
    /\ pair = PairConstructed
    /\ page = PageParked

PairSettled == pair.rx.w.net = {} /\ pair.sg.w.net = {}

\* the page calls a method of both clients: rxw and sgw are their worlds afterwards
PairCall(rxw, sgw) ==
    /\ PairSettled
    /\ pair.calls < MaxCalls
    /\ pair' = [pair EXCEPT !.rx.w = rxw, !.sg.w = SgTick(sgw), !.calls = @ + 1]
    /\ UNCHANGED <<impl, calls, store, nextId, net, timers, rx, sg, filt, page>>

\* setUsername(u) with another username than the current one
PairSetUsername(u) ==
    /\ u # pair.rx.w.c.username
    /\ u # pair.sg.w.c.username
    /\ PairCall(RxSetUsernameCall(pair.rx.w, u), SgSetUsernameCall(pair.sg.w, u))

PairLoadNotes ==
    PairCall(RxLoadNotesNext(pair.rx.w, "none", 0), SgLoadNotesCall(pair.sg.w, "none", 0))

PairAddNote(note) ==
    PairCall(RxAddNoteNext(pair.rx.w, note), SgAddNoteNext(pair.sg.w, note))

\* deleteNote(id), for the id of a stored note or of none
PairDeleteNote(nid) ==
    /\ nid \in Ids(pair.rx.store) \cup {pair.rx.nextId}
    /\ PairCall(RxRemoveNoteNext(pair.rx.w, nid), SgRemoveNoteNext(pair.sg.w, nid))

\* setFilterTerm(term)
PairSetFilterTerm(term) ==
    /\ PairSettled
    /\ pair.calls < MaxCalls
    /\ pair' = [pair EXCEPT !.rx.term = term, !.sg.term = term, !.calls = @ + 1]
    /\ UNCHANGED <<impl, calls, store, nextId, net, timers, rx, sg, filt, page>>

\* the service of the client named which handles a request of that client
PairServe(which, r) ==
    /\ r \in pair[which].w.net
    /\ r.phase = "sent"
    /\ LET h == Handled(pair[which].store, pair[which].nextId, pair[which].w.net, r)
       IN  pair' = [pair EXCEPT ![which].store = h.store,
                                ![which].nextId = h.nextId,
                                ![which].w.net = h.net]
    /\ UNCHANGED <<impl, calls, store, nextId, net, timers, rx, sg, filt, page>>

\* the answer reaches the stream-based client
PairRxDeliver(r) ==
    /\ r \in pair.rx.w.net
    /\ r.phase = "ok"
    /\ r.awaited
    /\ pair' = [pair EXCEPT !.rx.w = RxSubscriberNext(@, r)]
    /\ UNCHANGED <<impl, calls, store, nextId, net, timers, rx, sg, filt, page>>

\* the answer reaches the signal-based client
PairSgDeliver(r) ==
    /\ r \in pair.sg.w.net
    /\ r.phase = "ok"
    /\ r.awaited
    /\ pair' = [pair EXCEPT !.sg.w = SgTick(SgSubscriberNext(@, r))]
    /\ UNCHANGED <<impl, calls, store, nextId, net, timers, rx, sg, filt, page>>

\* a refresh timer of the stream-based client fires
PairRxTimerFire(t) ==
    /\ t \in pair.rx.w.timers
    /\ pair' = [pair EXCEPT !.rx.w = RxTimerCallback([@ EXCEPT !.timers = @ \ {t}])]
    /\ UNCHANGED <<impl, calls, store, nextId, net, timers, rx, sg, filt, page>>

\* a refresh timer of the signal-based client fires
PairSgTimerFire(t) ==
    /\ t \in pair.sg.w.timers
    /\ pair' = [pair EXCEPT !.sg.w = SgTick(SgTimerCallback([@ EXCEPT !.timers = @ \ {t}]))]
    /\ UNCHANGED <<impl, calls, store, nextId, net, timers, rx, sg, filt, page>>

PairNext ==
    \/ \E u \in Usernames : PairSetUsername(u)
    \/ PairLoadNotes
    \/ \E note \in NoteTexts : PairAddNote(note)
    \/ \E nid \in Ids(pair.rx.store) \cup {pair.rx.nextId} : PairDeleteNote(nid)
    \/ \E term \in PairTerms : PairSetFilterTerm(term)
    \/ \E which \in {"rx", "sg"} : \E r \in pair[which].w.net : PairServe(which, r)
    \/ \E r \in pair.rx.w.net : PairRxDeliver(r)
    \/ \E r \in pair.sg.w.net : PairSgDeliver(r)
    \/ \E t \in pair.rx.w.timers : PairRxTimerFire(t)
    \/ \E t \in pair.sg.w.timers : PairSgTimerFire(t)

PairSpec == PairInit /\ [][PairNext]_vars

\* ================================================================== the page state machine
PageInit ==
    /\ Parked
    /\ filt = Filters(<<>>, <<>>, <<>>)
    /\ pair = PairConstructed
    /\ page \in {PageConstructed(kind, param) : kind \in {"rx", "sg"}, param \in PageParams}

PageStep(p) ==
    /\ page' = p
    /\ UNCHANGED <<impl, calls, store, nextId, net, timers, rx, sg, filt, pair>>

\* the user types into the note box: the control takes the text, and
\* [(ngModel)]="newNote" assigns it to newNote
PageNoteInput(text) ==
    /\ text # page.control
    /\ PageStep([page EXCEPT !.control = text, !.newNote = text])

\* the user types into the name box: [formControl]="nameControl"
PageNameInput(text) ==
    /\ text # page.nameControl
    /\ PageStep([page EXCEPT !.nameControl = text])

\* (ngSubmit)="addNote(f)"
PageAddNote ==
    /\ page.calls < MaxCalls
    /\ PageStep([PageAddNoteCall(page) EXCEPT !.calls = @ + 1])

\* (click)="updateNameParam()"
PageUpdateNameParam ==
    /\ page.calls < MaxCalls
    /\ PageStep([PageUpdateNameParamCall(page) EXCEPT !.calls = @ + 1])

\* the navigation in progress ends: the URL has the new name parameter, and the
\* page is notified of it
PageNavigationEnd ==
    /\ page.nav # {}
    /\ \E target \in page.nav :
          PageStep(PageOnNameParamChange([page EXCEPT !.param = target, !.nav = {}]))

PageNext ==
    \/ \E text \in NoteInputs : PageNoteInput(text)
    \/ \E text \in NameInputs : PageNameInput(text)
    \/ PageAddNote
    \/ PageUpdateNameParam
    \/ PageNavigationEnd

PageSpec == PageInit /\ [][PageNext]_vars

\* ================================================================== what the page sees
\* the members of NoteDataClientInterface of the client that runs
Notes == IF impl = "rx" THEN rx.notes ELSE SgNotes(sg)

Loading == IF impl = "rx" THEN rx.loading ELSE SgLoading(sg)

Error == IF impl = "rx" THEN rx.error ELSE SgError(sg)

ShowRefresh == IF impl = "rx" THEN rx.showRefresh ELSE sg.showRefresh

Username == IF impl = "rx" THEN rx.username ELSE sg.username

Destroyed == IF impl = "rx" THEN rx.destroyed ELSE sg.destroyed

\* the list call whose answer the client waits for
ListAwaited == \E r \in net : r.op = "list" /\ r.awaited

\* ================================================================== the claims

\* C1: in both clients, once ngOnDestroy has run, no step changes notes, loading
\* or error (the answers of the calls in flight at teardown are not handled), and
\* no step puts a request into the network (loadNotes, addNote, deleteNote and
\* setUsername issue no remote call).
C1_TeardownCancelsCalls ==
    [][Destroyed => /\ Notes' = Notes
                    /\ Loading' = Loading
                    /\ Error' = Error
                    /\ net' \subseteq net]_vars

\* a torn down client with a call of its own still travelling and calls made since
C1_Witness == Destroyed /\ net # {} /\ Loading /\ calls > 0

\* C2: in the stream-based client, after ngOnDestroy no timer is pending and
\* showRefresh$ never turns from false to true.
C2_RxTimerClearedOnTeardown ==
    /\ [](rx.destroyed => timers = {})
    /\ [][rx.destroyed => (rx'.showRefresh => rx.showRefresh)]_vars

\* torn down while the timer of the last successful fetch had not fired
C2_Witness == rx.destroyed /\ rx.refreshTimer # 0 /\ ~rx.showRefresh

\* C3: in the signal-based client, after ngOnDestroy no timer is pending.
C3_SgTimerClearedOnTeardown == sg.destroyed => timers = {}

\* C5: in both clients at most one refresh timer is pending.
C5_OneTimer == Cardinality(timers) <= 1

\* a timer is pending while the page shows a created note
C5_Witness == Cardinality(timers) = 1 /\ Notes # <<>> /\ ~ShowRefresh

\* the answer of list call r reaches the client as a success
ListSucceeds(r) == r.op = "list" /\ (RxDeliverOk(r) \/ SgDeliverOk(r))

\* C4: in the stream-based client, while a list call is awaited, and after a
\* list call has failed, showRefresh$ does not turn true: the timer of the
\* earlier fetch does not fire.
C4_RxTimerSupersededByFetch ==
    [][(impl = "rx" /\ (ListAwaited \/ rx.loadSub = "errored"))
          => (rx'.showRefresh => rx.showRefresh)]_vars

\* C6: in both clients a successful list call leaves showRefresh false with the
\* timer armed; showRefresh, once true, turns false only when a list call starts
\* or succeeds; and a pending timer leads to showRefresh being true unless a list
\* call starts or the client is torn down.
C6_RefreshPromptAfterDelay ==
    /\ [][\A r \in net : ListSucceeds(r) => (~ShowRefresh' /\ Cardinality(timers') = 1)]_vars
    /\ [][(ShowRefresh /\ ~ShowRefresh')
             => (ListAwaited' \/ \E r \in net : ListSucceeds(r))]_vars
    /\ ((timers # {}) ~> (ShowRefresh \/ ListAwaited \/ Destroyed))

\* the prompt is shown, no call is pending, the client is alive
C6_Witness == ShowRefresh /\ timers = {} /\ net = {} /\ ~Destroyed

\* C7: in the stream-based client a failure that reaches its subscriber sets
\* error$ to the failure's message and loading$ to false, leaves notes$ alone
\* and issues no call.
C7_RxFailureShown ==
    [][\A r \in net : RxDeliverErr(r) =>
          /\ rx'.error = ErrMessage(r.op)
          /\ ~rx'.loading
          /\ rx'.notes = rx.notes
          /\ net' \subseteq net]_vars

\* a failure is shown over the notes fetched before
C7_Witness == impl = "rx" /\ rx.error # NULL /\ ~rx.loading /\ rx.notes # <<>>

\* C8: in the signal-based client error is 'Fetch of notes failed' while the
\* resource is in its Error state (which a failed list call puts it in),
\* otherwise the message of the create call that failed, otherwise that of the
\* remove call that failed, otherwise null; a failure issues no call.
C8_SgErrorText ==
    /\ [](impl = "sg" =>
            SgError(sg) = IF sg.status = "Error" THEN FetchFailed
                          ELSE IF sg.addSub = "errored" THEN ErrMessage("create")
                          ELSE IF sg.removeSub = "errored" THEN ErrMessage("remove")
                          ELSE NULL)
    /\ [][\A r \in net : SgDeliverErr(r) =>
             /\ net' \subseteq net
             /\ (r.op = "list" => SgError(sg') = FetchFailed)]_vars

\* a create and a remove call have both failed
C8_Witness ==
    /\ sg.addSub = "errored" /\ sg.removeSub = "errored"
    /\ sg.status = "Resolved" /\ ~sg.destroyed

\* C9, first half: setUsername(u) of a live client with u other than the
\* current username issues a list call with person = u.
C9_FetchOnUsernameChange ==
    [][\A u \in Usernames :
          ((RxSetUsername(u) \/ SgSetUsername(u)) /\ u # Username /\ ~Destroyed)
             => \E q \in net' : /\ q.op = "list" /\ q.awaited /\ q.phase = "sent"
                                /\ q.person = u]_vars

\* C9, second half: an answer replaces notes only when it is the answer of the
\* list call issued last (the signal-based client also empties notes when its
\* resource drops the value).
C9_OnlyLatestAnswerShown ==
    [][Notes' # Notes =>
          \/ \E r \in net : r.latest /\ ListSucceeds(r) /\ Notes' = r.result
          \/ impl = "sg" /\ Notes' = <<>>]_vars

\* C9: both halves.
C9_UsernameChangeSupersedes == C9_FetchOnUsernameChange /\ C9_OnlyLatestAnswerShown

\* the answer of the create or remove call r reaches the stream-based client
\* as a success while its list subscriber is open
RxMutationSucceeds(r) == r.op \in {"create", "remove"} /\ RxDeliverOk(r) /\ rx.loadSub = "open"

\* C10, as claimed: a successful create or remove issues a list call for the
\* current username, and the notes$ its answer sets contain the created note
\* and not the removed one.
C10_RxReloadShowsMutation ==
    /\ [][\A r \in net : RxMutationSucceeds(r) =>
             \E q \in net' : /\ q.op = "list" /\ q.awaited /\ q.phase = "sent"
                             /\ q.person = rx.username]_vars
    /\ [][\A r \in net : (impl = "rx" /\ ListSucceeds(r)) =>
             /\ rx'.notes = r.result
             /\ (r.afterOp = "create" => r.afterId \in Ids(rx'.notes))
             /\ (r.afterOp = "remove" => r.afterId \notin Ids(rx'.notes))]_vars

\* C10, amended: ... the notes$ its answer sets are that answer, do not contain
\* the removed note, and contain the created note when it is stored under the
\* username the list call asked for.
C10_RxReloadShowsStore ==
    /\ [][\A r \in net : RxMutationSucceeds(r) =>
             \E q \in net' : /\ q.op = "list" /\ q.awaited /\ q.phase = "sent"
                             /\ q.latest /\ q.afterOp = r.op
                             /\ q.person = rx.username]_vars
    /\ [][\A r \in net : (impl = "rx" /\ ListSucceeds(r)) =>
             /\ rx'.notes = r.result
             /\ (r.afterOp = "remove" => r.afterId \notin Ids(rx'.notes))
             /\ ((r.afterOp = "create"
                    /\ \E n \in Range(store) : n.id = r.afterId /\ n.person = r.person)
                   => r.afterId \in Ids(rx'.notes))]_vars

\* the list call issued after a successful create has been answered with the
\* created note
C10_Witness ==
    /\ impl = "rx"
    /\ \E r \in net : /\ r.op = "list" /\ r.awaited /\ r.phase = "ok"
                      /\ r.afterOp = "create" /\ r.afterId \in Ids(r.result)

\* the answer of the create or remove call r reaches the signal-based client
\* as a success
SgMutationSucceeds(r) == r.op \in {"create", "remove"} /\ SgDeliverOk(r)

\* C11: in the signal-based client, once a create or remove call has succeeded,
\* the list answer the client waits for reflects it: a list call for the current
\* username is awaited that the service has yet to handle, or whose answer
\* contains the created note (when it is stored under the current username) and
\* does not contain the removed note -- also when the mutation's answer arrives
\* while the resource is Loading or Reloading.
C11_SgRefetchShowsMutation ==
    [][\A r \in net : SgMutationSucceeds(r) =>
          \E q \in net' :
             /\ q.op = "list" /\ q.awaited /\ q.person = sg.username
             /\ \/ q.phase = "sent"
                \/ /\ (r.op = "create" /\ r.person = sg.username
                         /\ r.result[1].id \in Ids(store))
                      => r.result[1].id \in Ids(q.result)
                   /\ r.op = "remove" => r.nid \notin Ids(q.result)]_vars

\* the space-separated terms of a filter text: its maximal runs without a space
Words(str) ==
    {SubSeq(str, i, j) : <<i, j>> \in
        {ij \in (1..Len(str)) \X (1..Len(str)) :
            /\ ij[1] <= ij[2]
            /\ \A k \in ij[1]..ij[2] : str[k] # " "
            /\ ij[1] = 1 \/ str[ij[1] - 1] = " "
            /\ ij[2] = Len(str) \/ str[ij[2] + 1] = " "}}

\* note matches the filter text: each of its lower-cased terms occurs in the
\* lower-cased note text or in the lower-cased date string
Matches(note, text) ==
    \A t \in Words(ToLowerCase(text)) :
        \/ Includes(ToLowerCase(note.note), t)
        \/ Includes(ToLowerCase(ToLocaleDateString(note.createdAt)), t)

\* sub is the order-preserving sub-list of the notes of list that match text
MatchingSubList(sub, list, text) ==
    \E pos \in [1..Len(sub) -> 1..Len(list)] :
        /\ \A i \in 1..Len(sub) : sub[i] = list[pos[i]]
        /\ \A i, j \in 1..Len(sub) : i < j => pos[i] < pos[j]
        /\ \A k \in 1..Len(list) : Matches(list[k], text) <=> \E i \in 1..Len(sub) : pos[i] = k

\* C12: in both clients filteredNotes is the order-preserving sub-list of the
\* notes that match the filter text, is notes itself for a filter text without
\* a term, and is never longer than notes.
C12_FilteredNotesMatch ==
    /\ MatchingSubList(filt.rxFiltered, filt.notes, filt.term)
    /\ MatchingSubList(filt.sgFiltered, filt.notes, filt.term)
    /\ Words(filt.term) = {} => (filt.rxFiltered = filt.notes /\ filt.sgFiltered = filt.notes)
    /\ Len(filt.rxFiltered) <= Len(filt.notes)
    /\ Len(filt.sgFiltered) <= Len(filt.notes)

\* a filter text of two terms, in upper case, keeps the second of two notes:
\* one term occurs in its text only, the other in its date only
C12_Witness ==
    /\ Len(filt.notes) = 2
    /\ filt.rxFiltered = <<filt.notes[2]>>
    /\ filt.term = <<"A", " ", "1">>
    /\ ~Includes(ToLowerCase(filt.notes[2].note), <<"1">>)
    /\ ~Includes(ToLocaleDateString(filt.notes[2].createdAt), <<"a">>)

\* C13: the two filters return the same list for every list of notes and every
\* filter text.
C13_FiltersAgree == filt.rxFiltered = filt.sgFiltered

\* a term occurs in a note's text followed by its date string, and in neither
\* of them: the note is filtered out by both
C13_Witness ==
    /\ filt.term # <<>>
    /\ \E k \in 1..Len(filt.notes) :
          LET note == filt.notes[k]
          IN  /\ Includes(ToLowerCase(note.note) \o ToLocaleDateString(note.createdAt),
                          ToLowerCase(filt.term))
              /\ note \notin Range(filt.rxFiltered)
              /\ note \notin Range(filt.sgFiltered)
    /\ Len(filt.notes) > 1

\* C14: whenever the requests of a sequential run of successful calls have all
\* been answered, the two clients show the same username, notes, filteredNotes
\* and counts, with loading false and error null.
C14_ClientsAgree ==
    PairSettled =>
        LET rxc == pair.rx.w.c
            sgc == pair.sg.w.c
            rxFiltered == RxFilterNotes(rxc.notes, pair.rx.term)
            sgFiltered == SgFilteredNotes(SgNotes(sgc), pair.sg.term)
        IN  /\ rxc.username = sgc.username
            /\ rxc.notes = SgNotes(sgc)
            /\ Len(rxc.notes) = Len(SgNotes(sgc))
            /\ rxFiltered = sgFiltered
            /\ Len(rxFiltered) = Len(sgFiltered)
            /\ ~rxc.loading /\ ~SgLoading(sgc)
            /\ rxc.error = NULL /\ SgError(sgc) = NULL

\* after MaxCalls calls both clients show a note of their user that the filter
\* text hides
C14_Witness ==
    /\ PairSettled
    /\ pair.calls = MaxCalls
    /\ pair.sg.w.c.username = "ann"
    /\ SgNotes(pair.sg.w.c) # <<>>
    /\ SgFilteredNotes(SgNotes(pair.sg.w.c), pair.sg.term) = <<>>

\* C15: no two notes of the store share an id, and a create call stores, and
\* returns, one new note whose id no note of the store had before the call.
C15_UniqueIds ==
    /\ [](\A i, j \in 1..Len(store) : i # j => store[i].id # store[j].id)
    /\ [][\A r \in net : (Serve(r) /\ r.op = "create") =>
             /\ Len(store') = Len(store) + 1
             /\ SubSeq(store', 1, Len(store)) = store
             /\ store'[Len(store')].id \notin Ids(store)
             /\ \A q \in net' \ net : /\ q.op = "create" /\ q.phase = "ok"
                                      /\ q.result = <<store'[Len(store')]>>]_vars

\* two notes were created and the one with id 1 was removed
C15_Witness == Len(store) = 1 /\ store[1].id = 2 /\ nextId = 3

\* C16: list(person) answers with exactly the stored notes of that person and
\* leaves the store alone; remove(id) takes exactly the note with that id out of
\* the store, whoever owns it, and answers with it; remove of an id that is not
\* stored changes nothing and answers with no note.
C16_ListAndRemoveFrame ==
    [][\A r \in net : Serve(r) =>
          /\ r.op = "list" =>
               /\ store' = store
               /\ \A q \in net' \ net :
                     /\ Range(q.result) = {n \in Range(store) : n.person = r.person}
                     /\ Len(q.result) = Cardinality(Range(q.result))
          /\ r.op = "remove" =>
               /\ Range(store') = {n \in Range(store) : n.id # r.nid}
               /\ Len(store') = Cardinality(Range(store'))
               /\ \A i, j \in 1..Len(store') : i < j =>
                     \E k, l \in 1..Len(store) :
                        k < l /\ store[k] = store'[i] /\ store[l] = store'[j]
               /\ \A q \in net' \ net :
                     Range(q.result) = {n \in Range(store) : n.id = r.nid}
               /\ r.nid \notin Ids(store) =>
                     /\ store' = store
                     /\ \A q \in net' \ net : q.result = <<>>]_vars

\* a remove call for an id that was not stored has been answered
C16_Witness ==
    \E q \in net : /\ q.op = "remove" /\ q.phase = "ok" /\ q.awaited
                   /\ q.result = <<>> /\ q.nid < nextId

\* the subscriber of the client's add note stream is open
AddSubOpen == IF impl = "rx" THEN rx.addSub = "open" ELSE sg.addSub = "open"

\* C17: in both clients addNote(text) issues a create call for text with
\* person = the username current at that moment; a later setUsername leaves the
\* create calls in flight as they are; and the service stores the note under
\* the person of the call.
C17_CreateCarriesUsername ==
    /\ [][\A note \in NoteTexts :
             ((RxAddNote(note) \/ SgAddNote(note)) /\ AddSubOpen) =>
                \E q \in net' : /\ q.op = "create" /\ q.latest /\ q.awaited
                                /\ q.phase = "sent"
                                /\ q.note = note /\ q.person = Username]_vars
    /\ [][\A u \in Usernames :
             (RxSetUsername(u) \/ SgSetUsername(u)) =>
                {q \in net' : q.op = "create"} = {q \in net : q.op = "create"}]_vars
    /\ [][\A r \in net : (Serve(r) /\ r.op = "create") =>
             /\ store'[Len(store')].person = r.person
             /\ store'[Len(store')].note = r.note]_vars

\* the signal-based client awaits the answer of a create call made under the
\* username it had before setUsername
C17_Witness ==
    /\ impl = "sg"
    /\ \E q \in net : /\ q.op = "create" /\ q.awaited /\ q.phase = "ok"
                      /\ q.person # sg.username
                      /\ q.result[1].person = q.person

\* the answer of request r, success or failure, reaches the client
Delivered(r) == RxDeliverOk(r) \/ RxDeliverErr(r) \/ SgDeliverOk(r) \/ SgDeliverErr(r)

\* C18: in both clients only the most recent create call and the most recent
\* remove call are awaited; the answer of an earlier one is not handled, and
\* the step in which it leaves the network issues no list call and changes
\* neither loading nor error.
C18_LastWriteWins ==
    /\ [](\A r \in net : (r.op \in {"create", "remove"} /\ r.awaited) => r.latest)
    /\ [](\A op \in {"create", "remove"} :
            Cardinality({r \in net : r.op = op /\ r.awaited}) <= 1)
    /\ [][\A r \in net : (r.op \in {"create", "remove"} /\ ~r.latest) =>
             /\ ~Delivered(r)
             /\ r \notin net' =>
                  /\ Loading' = Loading
                  /\ Error' = Error
                  /\ {q \in net' : q.op = "list"} = {q \in net : q.op = "list"}]_vars

\* addNote was called while an earlier create call was awaited: the earlier
\* call is on its way to the service, unawaited
C18_Witness ==
    \E r, q \in net : /\ r.op = "create" /\ ~r.latest /\ ~r.awaited
                      /\ q.op = "create" /\ q.latest /\ q.awaited /\ q.phase = "ok"

\* C19: in the stream-based client loading$ is true whenever a list, create or
\* remove call is awaited.
C19_RxLoadingWhileAwaited ==
    (impl = "rx" /\ \E r \in net : r.awaited) => rx.loading

\* C20: in the live signal-based client loading is false whenever no call is awaited,
\* and addNote and deleteNote issue their call also after a create or remove
\* call has failed.
C20_SgLoadingReturns ==
    /\ []((impl = "sg" /\ ~sg.destroyed /\ ~\E r \in net : r.awaited) => ~SgLoading(sg))
    /\ [][\A note \in NoteTexts : (SgAddNote(note) /\ ~sg.destroyed) =>
             \E q \in net' : q.op = "create" /\ q.awaited /\ q.phase = "sent"]_vars
    /\ [][\A nid \in Ids(SgNotes(sg)) : (SgDeleteNote(nid) /\ ~sg.destroyed) =>
             \E q \in net' : q.op = "remove" /\ q.awaited /\ q.phase = "sent"]_vars

\* the list, create and remove calls in the network
CallsOf(netv, op) == {q \in netv : q.op = op}

\* C21: in the stream-based client a failure ends the pipeline it occurred in,
\* for good.  After a failed list call, loadNotes and setUsername issue no
\* request and leave loading$ and error$ alone, and no step, the success of a
\* create or remove call included, issues a list call; after a failed create
\* (remove) call, addNote (deleteNote) issues no request and changes nothing.
C21_RxFailureIsTerminal ==
    /\ [][/\ rx.loadSub = "errored" => rx'.loadSub = "errored"
          /\ rx.addSub = "errored" => rx'.addSub = "errored"
          /\ rx.removeSub = "errored" => rx'.removeSub = "errored"]_vars
    /\ [][rx.loadSub = "errored" =>
             /\ CallsOf(net', "list") \subseteq CallsOf(net, "list")
             /\ (RxLoadNotes \/ \E u \in Usernames : RxSetUsername(u)) =>
                   /\ net' = net
                   /\ rx'.loading = rx.loading
                   /\ rx'.error = rx.error]_vars
    /\ [][\A note \in NoteTexts : (rx.addSub = "errored" /\ RxAddNote(note)) =>
             (net' = net /\ rx' = rx)]_vars
    /\ [][\A nid \in Ids(rx.notes) : (rx.removeSub = "errored" /\ RxDeleteNote(nid)) =>
             (net' = net /\ rx' = rx)]_vars

\* the three pipelines have failed, calls were made since, and the message of
\* the last failure is still shown
C21_Witness ==
    /\ rx.loadSub = "errored" /\ rx.addSub = "errored" /\ rx.removeSub = "errored"
    /\ calls = MaxCalls /\ net = {}
    /\ rx.error # NULL /\ ~rx.destroyed

\* C22: in the stream-based client loading$ = true implies error$ = null; a step
\* that issues a call clears error$, and error$ is set to a message only with
\* loading$ = false.
C22_RxLoadingMeansNoError ==
    /\ [](rx.loading => rx.error = NULL)
    /\ [][(impl = "rx" /\ \E q \in net' \ net : q.phase = "sent" /\ q.awaited)
             => rx'.error = NULL]_vars
    /\ [][(rx'.error # rx.error /\ rx'.error # NULL) => ~rx'.loading]_vars

\* a call is awaited, loading$ is true and error$ null although a call of
\* another kind has failed before
C22_Witness ==
    /\ rx.loading /\ rx.error = NULL
    /\ rx.addSub = "errored"
    /\ \E q \in net : q.awaited /\ q.op = "list" /\ q.phase = "sent"

\* ------------------------------------------------------------------ C23
\* C23: in both page components, addNote(form) with an invalid form (the required
\* note text is empty) hands no note to the client, issues no request and leaves
\* newNote as it is; with a valid form it hands the entered text to the client's
\* addNote exactly once, and newNote is '' afterwards.
C23_PageAddNote ==
    [][PageAddNote =>
          IF FormValid(page)
          THEN /\ page'.added = Append(page.added, page.newNote)
               /\ page'.newNote = <<>>
          ELSE /\ page'.added = page.added
               /\ page'.w = page.w
               /\ page'.newNote = page.newNote]_vars

\* ------------------------------------------------------------------ C24
\* t is s without the spaces at its two ends
IsTrimOf(t, s) ==
    /\ \E i, j \in 0..Len(s) :
          /\ i + Len(t) + j = Len(s)
          /\ SubSeq(s, i + 1, i + Len(t)) = t
          /\ \A k \in (1..i) \cup ((Len(s) - j + 1)..Len(s)) : s[k] = " "
    /\ t # <<>> => t[1] # " " /\ t[Len(t)] # " "

\* C24: in both page components, after updateNameParam the client's username is
\* the text of the name box without the spaces at its ends, and the navigation it
\* asked for leads to a name parameter equal to that text, or to none when the
\* text is empty; the notification at the end of the navigation hands the client
\* the username it already has, and the username stays what it was.
C24_NameParamFollowsNameBox ==
    /\ [][PageUpdateNameParam =>
             LET name == page'.w.c.username
             IN  /\ IsTrimOf(name, page.nameControl)
                 /\ page'.named = Append(page.named, name)
                 /\ \/ page'.nav = {IF name = <<>> THEN NoText ELSE name}
                    \/ /\ page'.nav = {}
                       /\ page'.param = IF name = <<>> THEN NoText ELSE name]_vars
    /\ [][PageNavigationEnd =>
             /\ page'.param \in page.nav
             /\ page'.nav = {}
             /\ page'.named = Append(page.named, page.w.c.username)
             /\ page'.w.c.username = page.w.c.username
             /\ page'.param = IF page.w.c.username = <<>> THEN NoText
                              ELSE page.w.c.username]_vars
    /\ [](page.nav = {} =>
             page.w.c.username = IF page.param = NoText THEN <<>> ELSE page.param)

\* the page was opened with the name parameter " a ", updateNameParam has handed
\* "a" to the client, the navigation has ended and its notification has handed
\* "a" to the client a second time
C24_Witness ==
    /\ page.nav = {}
    /\ page.param = <<"a">>
    /\ page.w.c.username = <<"a">>
    /\ page.named = <<<<" ", "a", " ">>, <<"a">>, <<"a">>>>

====
